---- MODULE Spec2Model ----
(***************************************************************************)
(* ics2tsv: a command-line converter from an iCalendar file to a           *)
(* delimited text file (src/unnamed/part_000, the version that sorts its   *)
(* rows; src/main.go is the earlier version without sorting).              *)
(*                                                                         *)
(* Strings whose bytes the program inspects, compares or produces          *)
(* (timestamps, formatted dates and times, the delimiter) are sequences    *)
(* of byte values.  Strings the program only compares for equality         *)
(* (summary, filter, name) are TLA+ strings.                               *)
(***************************************************************************)
EXTENDS Integers, Sequences, FiniteSets, TLC

(***************************************************************************)
(* Bounds of the model.                                                    *)
(***************************************************************************)
\* Longest calendar (number of VEVENTs) given to the program.
MaxEvents == 2
\* Rows the csv writer's bufio buffer holds before it writes to the sink.
BufRows == 1
\* Number of times the converter is run on the same input.
MaxRuns == 2
\* Longest time span, in minutes, given to formatDuration on its own.
MaxSpanMinutes == 6100

(***************************************************************************)
(* Bytes and decimal formatting (fmt.Sprintf "%02d", time.Format).         *)
(***************************************************************************)
IsDigit(c) == c >= 48 /\ c <= 57

RECURSIVE DigitsOf(_)
\* The decimal digits of n >= 0, most significant first, as bytes.
DigitsOf(n) == IF n < 10 THEN <<48 + n>> ELSE DigitsOf(n \div 10) \o <<48 + (n % 10)>>

RECURSIVE ZeroPad(_, _)
\* s left-padded with '0' to at least w bytes.
ZeroPad(s, w) == IF Len(s) >= w THEN s ELSE ZeroPad(<<48>> \o s, w)

\* fmt.Sprintf("%02d", n): the sign counts towards the width, zeros follow it.
Sprintf02d(n) ==
    IF n < 0 THEN <<45>> \o ZeroPad(DigitsOf(-n), 1) ELSE ZeroPad(DigitsOf(n), 2)

\* Go's integer division and int(float) conversion truncate towards zero.
Trunc(a, b) == IF a >= 0 THEN a \div b ELSE -((-a) \div b)

RECURSIVE StrLess(_, _)
\* Go's s < t on strings: bytewise lexicographic order.
StrLess(s, t) ==
    IF t = <<>> THEN FALSE
    ELSE IF s = <<>> THEN TRUE
    ELSE IF s[1] # t[1] THEN s[1] < t[1]
    ELSE StrLess(Tail(s), Tail(t))

(***************************************************************************)
(* time.Parse("20060102T150405", _), time.Format and Time.Sub.  A time is  *)
(* a civil date and clock time in UTC; a time span is a number of seconds  *)
(* (the timestamps have no finer resolution).                              *)
(***************************************************************************)
IsLeap(y) == (y % 4 = 0 /\ y % 100 # 0) \/ y % 400 = 0

DaysIn(m, y) ==
    IF m = 2 THEN (IF IsLeap(y) THEN 29 ELSE 28)
    ELSE IF m \in {4, 6, 9, 11} THEN 30 ELSE 31

\* The number s[i..j] spells, all of them digits.
RECURSIVE Atoi(_, _, _)
Atoi(s, i, j) == IF j < i THEN 0 ELSE Atoi(s, i, j - 1) * 10 + (s[j] - 48)

AllDigits(s, i, j) == \A k \in i..j : IsDigit(s[k])

NoTime == [year |-> 1, month |-> 1, day |-> 1, hour |-> 0, min |-> 0, sec |-> 0]

\* parseTime: the layout is four digits of year, two of month, two of day,
\* the letter T, two digits each of hour, minute and second, and nothing
\* more; every component must be in range.  An error gives time.Time{}.
parseTime(timeString) ==
    LET s == timeString
        shape == /\ Len(s) = 15
                 /\ AllDigits(s, 1, 8)
                 /\ s[9] = 84
                 /\ AllDigits(s, 10, 15)
        t == [year |-> Atoi(s, 1, 4), month |-> Atoi(s, 5, 6), day |-> Atoi(s, 7, 8),
              hour |-> Atoi(s, 10, 11), min |-> Atoi(s, 12, 13), sec |-> Atoi(s, 14, 15)]
        inRange == /\ t.month >= 1 /\ t.month <= 12
                   /\ t.day >= 1 /\ t.day <= DaysIn(t.month, t.year)
                   /\ t.hour <= 23 /\ t.min <= 59 /\ t.sec <= 59
    IN  IF shape /\ inRange THEN [ok |-> TRUE, t |-> t] ELSE [ok |-> FALSE, t |-> NoTime]

\* Days from 1970-01-01 to the civil date (proleptic Gregorian calendar).
DaysFromCivil(y, m, d) ==
    LET yy == IF m <= 2 THEN y - 1 ELSE y
        era == yy \div 400
        yoe == yy - era * 400
        mp == (m + 9) % 12
        doy == (153 * mp + 2) \div 5 + d - 1
        doe == yoe * 365 + yoe \div 4 - yoe \div 100 + doy
    IN  era * 146097 + doe - 719468

\* Seconds of t since the day DaysFromCivil counts from.
Unix(t) == DaysFromCivil(t.year, t.month, t.day) * 86400 + t.hour * 3600 + t.min * 60 + t.sec

\* end.Sub(start), in seconds.
Sub(end, start) == Unix(end) - Unix(start)

\* t.Format("2006/01/02")
FormatDate(t) ==
    ZeroPad(DigitsOf(t.year), 4) \o <<47>> \o ZeroPad(DigitsOf(t.month), 2)
        \o <<47>> \o ZeroPad(DigitsOf(t.day), 2)

\* t.Format("15:04")
FormatClock(t) == ZeroPad(DigitsOf(t.hour), 2) \o <<58>> \o ZeroPad(DigitsOf(t.min), 2)

\* formatDuration with the hour count computed from the minutes left over
\* after a modulo by 24, as a clock would show it.
formatDurationClock(d) ==
    LET hours == Trunc(d, 3600) % 24
        minutes == Trunc(d, 60) - Trunc(d, 3600) * 60
    IN  Sprintf02d(hours) \o <<58>> \o Sprintf02d(minutes)

\* formatDuration: int(d.Hours()), int(d.Minutes()) - hours*60, "%02d:%02d".
formatDuration(d) ==
    LET hours == Trunc(d, 3600)
        minutes == Trunc(d, 60) - hours * 60
    IN  Sprintf02d(hours) \o <<58>> \o Sprintf02d(minutes)

(***************************************************************************)
(* The calendar: what ics.ParseCalendar hands to main.  A VEVENT is the    *)
(* properties main reads; GetProperty gives a nil pointer for a property   *)
(* the event does not have (present = FALSE), and reading .Value through   *)
(* it is a nil dereference, which panics.                                  *)
(***************************************************************************)
Stamp(y, mo, d, h, mi, s) ==
    ZeroPad(DigitsOf(y), 4) \o ZeroPad(DigitsOf(mo), 2) \o ZeroPad(DigitsOf(d), 2) \o <<84>>
        \o ZeroPad(DigitsOf(h), 2) \o ZeroPad(DigitsOf(mi), 2) \o ZeroPad(DigitsOf(s), 2)

Text(v) == [present |-> TRUE, value |-> v]
NoSummary == [present |-> FALSE, value |-> ""]
NoStamp == [present |-> FALSE, value |-> <<>>]

VEvent(summary, dtstart, dtend) == [summary |-> summary, dtstart |-> dtstart, dtend |-> dtend]

\* The VEVENTs calendars are made of: two plain events, a second Standup
\* at the same start as the first, an event of the day before that runs
\* over midnight, one without DTEND, one whose DTSTART carries the UTC
\* suffix Z, and one without SUMMARY.
EventPool ==
    { VEvent(Text("Standup"), Text(Stamp(2024, 1, 2, 9, 0, 0)), Text(Stamp(2024, 1, 2, 9, 15, 0))),
      VEvent(Text("Lunch"), Text(Stamp(2024, 1, 2, 12, 0, 0)), Text(Stamp(2024, 1, 2, 13, 0, 0))),
      VEvent(Text("Standup"), Text(Stamp(2024, 1, 2, 9, 0, 0)), Text(Stamp(2024, 1, 2, 10, 30, 0))),
      VEvent(Text("Standup"), Text(Stamp(2024, 1, 1, 23, 30, 0)), Text(Stamp(2024, 1, 2, 0, 10, 0))),
      VEvent(Text("Lunch"), Text(Stamp(2024, 1, 2, 12, 0, 0)), NoStamp),
      VEvent(Text("Lunch"), Text(Stamp(2024, 1, 2, 12, 0, 0) \o <<90>>), Text(Stamp(2024, 1, 2, 13, 0, 0))),
      VEvent(NoSummary, Text(Stamp(2024, 1, 2, 15, 0, 0)), Text(Stamp(2024, 1, 2, 16, 0, 0))) }

RECURSIVE SeqsUpTo(_, _)
\* The sequences over S of length at most n.
SeqsUpTo(S, n) ==
    IF n = 0 THEN {<<>>}
    ELSE LET shorter == SeqsUpTo(S, n - 1)
         IN  shorter \cup {Append(q, x) : q \in shorter, x \in S}

Calendars == SeqsUpTo(EventPool, MaxEvents)

(***************************************************************************)
(* The command line and the environment.                                   *)
(***************************************************************************)
Filters == {"", "Standup"}
Names == {"yourName"}
\* -d: the default "\t", a comma, and the empty string.
Commas == {<<9>>, <<44>>, <<>>}

\* What can go wrong outside the program: the input file cannot be opened,
\* its content is no calendar, the output file cannot be created, the sink
\* rejects every write, or a Close fails.
Faults == {"none", "open", "calendar", "create", "write", "closeOut", "closeIcs"}

Argvs ==
    [hasIcs : BOOLEAN, filter : Filters, name : Names, comma : Commas, isStdout : BOOLEAN]

(***************************************************************************)
(* The filter loop of main.                                                *)
(***************************************************************************)
RECURSIVE SelectFrom(_, _, _)
\* The loop from event i on: kind "panic" when an event without SUMMARY is
\* reached, else the events kept, in calendar order.
SelectFrom(evs, filter, i) ==
    IF i > Len(evs) THEN [kind |-> "ok", events |-> <<>>]
    ELSE IF ~evs[i].summary.present THEN [kind |-> "panic", events |-> <<>>]
    ELSE LET eventSummary == evs[i].summary.value
             rest == SelectFrom(evs, filter, i + 1)
         IN  IF filter # "" /\ eventSummary # filter THEN rest
             ELSE [kind |-> rest.kind,
                   events |-> IF rest.kind = "ok" THEN <<evs[i]>> \o rest.events ELSE <<>>]

SelectEvents(evs, filter) == SelectFrom(evs, filter, 1)

(***************************************************************************)
(* Rows (the type Column) and NewColumn.                                   *)
(***************************************************************************)
NoColumn == [name |-> "", date |-> <<>>, startTime |-> <<>>, endTime |-> <<>>, duration |-> <<>>]

\* NewColumn: kind "panic" for a nil dereference, "error" for the error of
\* parseTime, "ok" with the row otherwise.
NewColumn(event, name) ==
    IF ~event.dtstart.present THEN [kind |-> "panic", col |-> NoColumn]
    ELSE LET start == parseTime(event.dtstart.value)
         IN  IF ~start.ok THEN [kind |-> "error", col |-> NoColumn]
             ELSE IF ~event.dtend.present THEN [kind |-> "panic", col |-> NoColumn]
             ELSE LET end == parseTime(event.dtend.value)
                  IN  IF ~end.ok THEN [kind |-> "error", col |-> NoColumn]
                      ELSE [kind |-> "ok",
                            col |-> [name |-> name,
                                     date |-> FormatDate(start.t),
                                     startTime |-> FormatClock(start.t),
                                     endTime |-> FormatClock(end.t),
                                     duration |-> formatDuration(Sub(end.t, start.t))]]

RECURSIVE ColumnsFrom(_, _, _)
\* The loop that creates the columns, from event i on: the first event
\* that fails decides how the loop ends.
ColumnsFrom(evs, name, i) ==
    IF i > Len(evs) THEN [kind |-> "ok", columns |-> <<>>]
    ELSE LET c == NewColumn(evs[i], name)
         IN  IF c.kind # "ok" THEN [kind |-> c.kind, columns |-> <<>>]
             ELSE LET rest == ColumnsFrom(evs, name, i + 1)
                  IN  [kind |-> rest.kind,
                       columns |-> IF rest.kind = "ok" THEN <<c.col>> \o rest.columns ELSE <<>>]

CreateColumns(evs, name) == ColumnsFrom(evs, name, 1)

(***************************************************************************)
(* sort.Slice with main's less function.  sort.Slice promises a            *)
(* permutation in which no element is less than one before it, and does    *)
(* not promise to keep equal elements in their order; the build's sort is  *)
(* a fixed algorithm without a source of randomness, so it makes the same  *)
(* of the same slice every time (memo records what it made).               *)
(***************************************************************************)
\* less comparing the dates only.
lessDateOnly(a, b) == StrLess(a.date, b.date)

less(a, b) ==
    StrLess(a.date, b.date) \/ (a.date = b.date /\ StrLess(a.startTime, b.startTime))

IndexPerms(n) == {p \in [1..n -> 1..n] : \A i, j \in 1..n : i # j => p[i] # p[j]}

Permuted(s, p) == [i \in 1..Len(s) |-> s[p[i]]]

Sorted(s) == \A i, j \in 1..Len(s) : i < j => ~less(s[j], s[i])

\* Every outcome sort.Slice's contract allows for the slice.
SortOutcomes(s) == {t \in {Permuted(s, p) : p \in IndexPerms(Len(s))} : Sorted(t)}

\* A sort that may order equal elements differently from one call to the next.
SortSliceUnrepeatable(s, memo) == SortOutcomes(s)

\* What this build's sort.Slice can return for s.
SortSlice(s, memo) ==
    IF \E m \in memo : m[1] = s THEN {m[2] : m \in {x \in memo : x[1] = s}}
    ELSE SortOutcomes(s)

(***************************************************************************)
(* The csv writer.                                                         *)
(***************************************************************************)
\* utf8.DecodeRuneInString: the first rune, or RuneError for "".
DecodeRuneInString(s) == IF s = <<>> THEN 65533 ELSE s[1]

\* encoding/csv's validDelim.
validDelim(r) == r # 0 /\ r # 34 /\ r # 13 /\ r # 10 /\ r # 65533

\* The record writeCsv hands to w.Write, with the delimiter it is joined by.
Line(col, comma) ==
    [fields |-> <<col.name, col.date, col.startTime, col.endTime, col.duration>>,
     comma |-> comma]

(***************************************************************************)
(* The program as a state machine: one run of main after the other on the  *)
(* same command line, calendar and environment.                            *)
(***************************************************************************)
VARIABLES
    argv,       \* the command line
    calendar,   \* the VEVENTs of the input file
    fault,      \* what goes wrong outside the program
    run,        \* which run this is
    pc,         \* the statement of main about to run, or "exited"
    panicking,  \* main is unwinding after a nil dereference
    exit,       \* [code, cause] once exited; code -1 while running
    events,     \* the events kept by the filter
    columns,    \* the rows
    deferred,   \* the deferred calls, last registered first
    icsFile,    \* the input handle: "unopened", "open" or "closed"
    outHandle,  \* the output file's handle: "none", "open" or "closed"
    outFile,    \* the file at the output path: [exists, data]
    outFile0,   \* the file at the output path when the run began
    stdout,     \* what the run wrote to standard output: [usage, rows]
    writer,     \* the csv writer: [made, comma, buf, err, flushed]
    next,       \* index of the next row writeCsv writes
    memo,       \* what sort.Slice made of the slices it was given
    prev,       \* what the run before this one left behind
    span,       \* a time span, in seconds, given to formatDuration on its own
    hhmm        \* what formatDuration made of span, <<>> before the call

vars == <<argv, calendar, fault, run, pc, panicking, exit, events, columns, deferred, icsFile,
          outHandle, outFile, outFile0, stdout, writer, next, memo, prev, span, hhmm>>

inputs == <<argv, calendar, fault, span, hhmm>>

\* main with the output opened before the rows are built, as in the
\* version without sorting.
StatementsSinkFirst ==
    <<"parseArgs", "open", "parse", "filter", "sink", "newWriter", "columns", "sort",
      "write", "return">>

\* The statements of main, in program order.
Statements ==
    <<"parseArgs", "open", "parse", "filter", "columns", "sort", "sink", "newWriter",
      "write", "return">>

After(stmt) ==
    LET i == CHOOSE k \in 1..Len(Statements) : Statements[k] = stmt
    IN  Statements[i + 1]

NoWriter == [made |-> FALSE, comma |-> 0, buf |-> <<>>, err |-> FALSE, flushed |-> FALSE]
NoOutput == [usage |-> FALSE, rows |-> <<>>]
Running == [code |-> -1, cause |-> ""]

\* What a run leaves behind for an observer.
Observed == [exit |-> exit, stdout |-> stdout, outFile |-> outFile]

Init ==
    /\ argv \in Argvs
    /\ calendar \in Calendars
    /\ fault \in Faults
    /\ argv.hasIcs \/ (calendar = <<>> /\ fault = "none" /\ argv.filter = "" /\ argv.comma = <<9>>)
    /\ span = 0
    /\ hhmm = <<>>
    /\ run = 1
    /\ pc = "parseArgs"
    /\ panicking = FALSE
    /\ exit = Running
    /\ events = <<>>
    /\ columns = <<>>
    /\ deferred = <<>>
    /\ icsFile = "unopened"
    /\ outHandle = "none"
    /\ outFile = [exists |-> FALSE, data |-> <<>>]
    /\ outFile0 = outFile
    /\ stdout = NoOutput
    /\ writer = NoWriter
    /\ next = 1
    /\ memo = {}
    /\ prev = [exit |-> Running, stdout |-> NoOutput, outFile |-> outFile]

\* log.Fatal and os.Exit(1): the process ends at once; the deferred calls
\* do not run.
Fatal(cause) ==
    /\ pc' = "exited"
    /\ exit' = [code |-> 1, cause |-> cause]

\* A nil dereference: main stops where it is and unwinds, running the
\* deferred calls; the process then ends with status 2.
Panic(cause) ==
    /\ pc' = "return"
    /\ panicking' = TRUE
    /\ exit' = [code |-> -1, cause |-> cause]

\* parseArgs: -i is required; without it the usage text is printed with
\* fmt.Print, to standard output, and the process exits with status 1.
ParseArgs ==
    /\ pc = "parseArgs"
    /\ IF argv.hasIcs
       THEN /\ pc' = After("parseArgs")
            /\ UNCHANGED <<exit, stdout>>
       ELSE /\ stdout' = [stdout EXCEPT !.usage = TRUE]
            /\ Fatal("usage")
    /\ UNCHANGED <<inputs, run, panicking, events, columns, deferred, icsFile, outHandle,
                   outFile, outFile0, writer, next, memo, prev>>

\* os.Open of the input, and the deferred Close.
OpenIcs ==
    /\ pc = "open"
    /\ IF fault = "open"
       THEN /\ Fatal("open")
            /\ UNCHANGED <<icsFile, deferred>>
       ELSE /\ icsFile' = "open"
            /\ deferred' = <<"closeIcs">> \o deferred
            /\ pc' = After("open")
            /\ UNCHANGED exit
    /\ UNCHANGED <<inputs, run, panicking, events, columns, outHandle, outFile, outFile0,
                   stdout, writer, next, memo, prev>>

\* ics.ParseCalendar.
ParseCalendar ==
    /\ pc = "parse"
    /\ IF fault = "calendar"
       THEN Fatal("calendar")
       ELSE pc' = After("parse") /\ UNCHANGED exit
    /\ UNCHANGED <<inputs, run, panicking, events, columns, deferred, icsFile, outHandle,
                   outFile, outFile0, stdout, writer, next, memo, prev>>

\* The filter loop.
Filter ==
    /\ pc = "filter"
    /\ LET r == SelectEvents(calendar, argv.filter)
       IN  IF r.kind = "panic"
           THEN /\ Panic("nilSummary")
                /\ UNCHANGED events
           ELSE /\ events' = r.events
                /\ pc' = After("filter")
                /\ UNCHANGED <<panicking, exit>>
    /\ UNCHANGED <<inputs, run, columns, deferred, icsFile, outHandle, outFile, outFile0,
                   stdout, writer, next, memo, prev>>

\* The loop that creates the columns.
Columns ==
    /\ pc = "columns"
    /\ LET r == CreateColumns(events, argv.name)
       IN  CASE r.kind = "panic" -> Panic("nilTimestamp") /\ UNCHANGED columns
             [] r.kind = "error" -> Fatal("timestamp") /\ UNCHANGED <<columns, panicking>>
             [] OTHER -> /\ columns' = r.columns
                         /\ pc' = After("columns")
                         /\ UNCHANGED <<panicking, exit>>
    /\ UNCHANGED <<inputs, run, events, deferred, icsFile, outHandle, outFile, outFile0,
                   stdout, writer, next, memo, prev>>

\* sort.Slice(columns, less).
Sort ==
    /\ pc = "sort"
    /\ \E t \in SortSlice(columns, memo) :
        /\ columns' = t
        /\ memo' = memo \cup {<<columns, t>>}
    /\ pc' = After("sort")
    /\ UNCHANGED <<inputs, run, panicking, exit, events, deferred, icsFile, outHandle, outFile,
                   outFile0, stdout, writer, next, prev>>

\* OpenSink creating the file at the output path whatever the sink is.
OpenSinkAlwaysCreates ==
    /\ pc = "sink"
    /\ IF fault = "create"
       THEN /\ Fatal("create")
            /\ UNCHANGED <<outHandle, outFile, deferred>>
       ELSE /\ outFile' = [exists |-> TRUE, data |-> <<>>]
            /\ outHandle' = "open"
            /\ deferred' = <<"closeOut">> \o deferred
            /\ pc' = After("sink")
            /\ UNCHANGED exit
    /\ UNCHANGED <<inputs, run, panicking, events, columns, icsFile, outFile0, stdout, writer,
                   next, memo, prev>>

\* The choice of the sink: standard output, or os.Create of the output
\* path (which creates the file or truncates it) and the deferred Close.
OpenSink ==
    /\ pc = "sink"
    /\ IF argv.isStdout
       THEN /\ pc' = After("sink")
            /\ UNCHANGED <<exit, outHandle, outFile, deferred>>
       ELSE IF fault = "create"
       THEN /\ Fatal("create")
            /\ UNCHANGED <<outHandle, outFile, deferred>>
       ELSE /\ outFile' = [exists |-> TRUE, data |-> <<>>]
            /\ outHandle' = "open"
            /\ deferred' = <<"closeOut">> \o deferred
            /\ pc' = After("sink")
            /\ UNCHANGED exit
    /\ UNCHANGED <<inputs, run, panicking, events, columns, icsFile, outFile0, stdout, writer,
                   next, memo, prev>>

\* csv.NewWriter, the delimiter, and the deferred Flush.
NewWriter ==
    /\ pc = "newWriter"
    /\ writer' = [NoWriter EXCEPT !.made = TRUE, !.comma = DecodeRuneInString(argv.comma)]
    /\ deferred' = <<"flush">> \o deferred
    /\ pc' = After("newWriter")
    /\ UNCHANGED <<inputs, run, panicking, exit, events, columns, icsFile, outHandle, outFile,
                   outFile0, stdout, next, memo, prev>>

\* A write of rows to the sink that accepts it.
SinkWrite(rows) ==
    IF argv.isStdout
    THEN stdout' = [stdout EXCEPT !.rows = @ \o rows] /\ UNCHANGED outFile
    ELSE outFile' = [outFile EXCEPT !.data = @ \o rows] /\ UNCHANGED stdout

\* One iteration of writeCsv's loop: w.Write refuses an invalid delimiter,
\* else puts the record in the buffer, writing the buffer to the sink
\* first when it is full.  writeCsv returns the error and main's log.Fatal
\* ends the process.
WriteRow ==
    /\ pc = "write"
    /\ next <= Len(columns)
    /\ LET row == Line(columns[next], writer.comma)
       IN  IF ~validDelim(writer.comma)
           THEN /\ Fatal("delimiter")
                /\ UNCHANGED <<writer, next, stdout, outFile>>
           ELSE IF Len(writer.buf) < BufRows
           THEN /\ writer' = [writer EXCEPT !.buf = Append(@, row)]
                /\ next' = next + 1
                /\ UNCHANGED <<pc, exit, stdout, outFile>>
           ELSE IF fault = "write"
           THEN /\ writer' = [writer EXCEPT !.err = TRUE]
                /\ Fatal("write")
                /\ UNCHANGED <<next, stdout, outFile>>
           ELSE /\ SinkWrite(writer.buf)
                /\ writer' = [writer EXCEPT !.buf = <<row>>]
                /\ next' = next + 1
                /\ UNCHANGED <<pc, exit>>
    /\ UNCHANGED <<inputs, run, panicking, events, columns, deferred, icsFile, outHandle,
                   outFile0, memo, prev>>

\* writeCsv returns nil and main returns.
WriteDone ==
    /\ pc = "write"
    /\ next > Len(columns)
    /\ pc' = After("write")
    /\ UNCHANGED <<inputs, run, panicking, exit, events, columns, deferred, icsFile, outHandle,
                   outFile, outFile0, stdout, writer, next, memo, prev>>

\* The deferred w.Flush(): the buffer goes to the sink; an error of that
\* write stays in the writer, where nothing reads it.
DeferredFlush ==
    /\ pc = "return"
    /\ deferred # <<>> /\ Head(deferred) = "flush"
    /\ deferred' = Tail(deferred)
    /\ IF writer.buf = <<>>
       THEN /\ writer' = [writer EXCEPT !.flushed = TRUE]
            /\ UNCHANGED <<stdout, outFile>>
       ELSE IF fault = "write"
       THEN /\ writer' = [writer EXCEPT !.flushed = TRUE, !.err = TRUE]
            /\ UNCHANGED <<stdout, outFile>>
       ELSE /\ SinkWrite(writer.buf)
            /\ writer' = [writer EXCEPT !.flushed = TRUE, !.buf = <<>>]
    /\ UNCHANGED <<inputs, run, pc, panicking, exit, events, columns, icsFile, outHandle,
                   outFile0, next, memo, prev>>

\* The deferred f.Close() of the output file, fatal when it fails.
DeferredCloseOut ==
    /\ pc = "return"
    /\ deferred # <<>> /\ Head(deferred) = "closeOut"
    /\ deferred' = Tail(deferred)
    /\ IF fault = "closeOut"
       THEN Fatal("closeOut") /\ UNCHANGED outHandle
       ELSE outHandle' = "closed" /\ UNCHANGED <<pc, exit>>
    /\ UNCHANGED <<inputs, run, panicking, events, columns, icsFile, outFile, outFile0, stdout,
                   writer, next, memo, prev>>

\* The deferred icsFile.Close(), fatal when it fails.
DeferredCloseIcs ==
    /\ pc = "return"
    /\ deferred # <<>> /\ Head(deferred) = "closeIcs"
    /\ deferred' = Tail(deferred)
    /\ IF fault = "closeIcs"
       THEN Fatal("closeIcs") /\ UNCHANGED icsFile
       ELSE icsFile' = "closed" /\ UNCHANGED <<pc, exit>>
    /\ UNCHANGED <<inputs, run, panicking, events, columns, outHandle, outFile, outFile0,
                   stdout, writer, next, memo, prev>>

\* The process ends once the deferred calls have run: with status 0 when
\* main returned, with status 2 when it panicked.
Exit ==
    /\ pc = "return"
    /\ deferred = <<>>
    /\ pc' = "exited"
    /\ exit' = IF panicking THEN [code |-> 2, cause |-> exit.cause] ELSE [code |-> 0, cause |-> ""]
    /\ UNCHANGED <<inputs, run, panicking, events, columns, deferred, icsFile, outHandle,
                   outFile, outFile0, stdout, writer, next, memo, prev>>

\* The converter is run again, on the same command line, calendar and
\* environment; the file at the output path is as the last run left it.
Rerun ==
    /\ pc = "exited"
    /\ run < MaxRuns
    /\ run' = run + 1
    /\ prev' = Observed
    /\ outFile0' = outFile
    /\ pc' = "parseArgs"
    /\ panicking' = FALSE
    /\ exit' = Running
    /\ events' = <<>>
    /\ columns' = <<>>
    /\ deferred' = <<>>
    /\ icsFile' = "unopened"
    /\ outHandle' = "none"
    /\ stdout' = NoOutput
    /\ writer' = NoWriter
    /\ next' = 1
    /\ UNCHANGED <<inputs, outFile, memo>>

Next ==
    \/ ParseArgs
    \/ OpenIcs
    \/ ParseCalendar
    \/ Filter
    \/ Columns
    \/ Sort
    \/ OpenSink
    \/ NewWriter
    \/ WriteRow
    \/ WriteDone
    \/ DeferredFlush
    \/ DeferredCloseOut
    \/ DeferredCloseIcs
    \/ Exit
    \/ Rerun

Spec == Init /\ [][Next]_vars

(***************************************************************************)
(* formatDuration on its own: a time span is drawn and formatted.          *)
(***************************************************************************)
Spans ==
    {sign * (m * 60 + s) : sign \in {1, -1}, m \in 0..MaxSpanMinutes, s \in {0, 30}}

InitDuration ==
    /\ span \in Spans
    /\ hhmm = <<>>
    /\ argv = [hasIcs |-> FALSE, filter |-> "", name |-> "yourName", comma |-> <<9>>,
               isStdout |-> FALSE]
    /\ calendar = <<>>
    /\ fault = "none"
    /\ run = 1
    /\ pc = "exited"
    /\ panicking = FALSE
    /\ exit = Running
    /\ events = <<>>
    /\ columns = <<>>
    /\ deferred = <<>>
    /\ icsFile = "unopened"
    /\ outHandle = "none"
    /\ outFile = [exists |-> FALSE, data |-> <<>>]
    /\ outFile0 = outFile
    /\ stdout = NoOutput
    /\ writer = NoWriter
    /\ next = 1
    /\ memo = {}
    /\ prev = [exit |-> Running, stdout |-> NoOutput, outFile |-> outFile]

FormatSpan ==
    /\ hhmm = <<>>
    /\ hhmm' = formatDuration(span)
    /\ UNCHANGED <<argv, calendar, fault, span, run, pc, panicking, exit, events, columns,
                   deferred, icsFile, outHandle, outFile, outFile0, stdout, writer, next, memo,
                   prev>>

NextDuration == FormatSpan

SpecDuration == InitDuration /\ [][NextDuration]_vars

(***************************************************************************)
(* Vocabulary of the properties.                                           *)
(***************************************************************************)
Exited == pc = "exited"

\* The rows in the sink the command line chose.
SinkRows == IF argv.isStdout THEN stdout.rows ELSE outFile.data

RowDate(r) == r.fields[2]
RowStart(r) == r.fields[3]
RowEnd(r) == r.fields[4]

\* Row a is earlier than row b by (date, startTime), compared as strings.
Earlier(a, b) ==
    StrLess(RowDate(a), RowDate(b))
        \/ (RowDate(a) = RowDate(b) /\ StrLess(RowStart(a), RowStart(b)))

SameKey(a, b) == RowDate(a) = RowDate(b) /\ RowStart(a) = RowStart(b)

Lines(cols, comma) == [i \in 1..Len(cols) |-> Line(cols[i], comma)]

IsPrefix(s, t) == Len(s) <= Len(t) /\ \A i \in 1..Len(s) : s[i] = t[i]

\* The rows of the kept events in calendar order, as the run would write them.
BuiltRows == Lines(CreateColumns(events, argv.name).columns, DecodeRuneInString(argv.comma))

\* Nothing outside the program fails and the delimiter is one csv accepts.
Benign == fault = "none" /\ validDelim(DecodeRuneInString(argv.comma))

StampOk(p) == p.present /\ parseTime(p.value).ok
StampsOk(e) == StampOk(e.dtstart) /\ StampOk(e.dtend)

Matches(e, filter) == filter = "" \/ (e.summary.present /\ e.summary.value = filter)

\* The events of the calendar the filter is to keep, in calendar order.
Matching(evs, filter) ==
    LET Keep(e) == Matches(e, filter) IN SelectSeq(evs, Keep)

\* The filter loop has been entered in this run.
FilterRan ==
    \/ pc \in {"columns", "sort", "sink", "newWriter", "write"}
    \/ pc \in {"return", "exited"} /\ exit.cause \notin {"usage", "open", "calendar"}

(***************************************************************************)
(* C1: the rows in the sink are in (date, startTime) order: whenever row   *)
(* A is earlier than row B by date, or by startTime on the same date, A    *)
(* stands before B, at the end of a successful run and at every moment     *)
(* before it.                                                              *)
(***************************************************************************)
C1_OutputOrdered ==
    \A i, j \in 1..Len(SinkRows) : Earlier(SinkRows[i], SinkRows[j]) => i < j

\* A run has succeeded whose rows the sort had to reorder.
C1_Witness ==
    /\ Exited /\ exit.code = 0
    /\ Len(SinkRows) >= 2
    /\ SinkRows # BuiltRows
    /\ \E i, j \in 1..Len(SinkRows) : Earlier(SinkRows[i], SinkRows[j])

(***************************************************************************)
(* C2: once the filter loop has run, the kept events are exactly the       *)
(* events whose SUMMARY equals the filter, or all events when the filter   *)
(* is empty; and a run with an empty filter whose timestamps all parse     *)
(* ends with as many rows in the sink as the calendar has events.          *)
(***************************************************************************)
C2_SelectionExact ==
    /\ (FilterRan /\ Benign) => events = Matching(calendar, argv.filter)
    /\ (Exited /\ argv.hasIcs /\ Benign /\ argv.filter = ""
            /\ \A i \in 1..Len(calendar) : StampsOk(calendar[i]))
        => Len(SinkRows) = Len(calendar)

(***************************************************************************)
(* C3: when the process has ended, every handle it opened has been closed  *)
(* and a csv writer it made has been flushed (the Close calls themselves   *)
(* succeeding).                                                            *)
(***************************************************************************)
C3_ReleasedOnExit ==
    (Exited /\ fault \notin {"closeOut", "closeIcs"})
        => /\ icsFile # "open"
           /\ outHandle # "open"
           /\ writer.made => writer.flushed

(***************************************************************************)
(* C4: a run in which a kept event lacks DTSTART or DTEND, or has one that *)
(* is not in the compact layout, ends with the fatal error that parseTime  *)
(* returned.                                                               *)
(***************************************************************************)
C4_BadTimestampIsFatalError ==
    (Exited /\ fault = "none" /\ \E i \in 1..Len(events) : ~StampsOk(events[i]))
        => exit = [code |-> 1, cause |-> "timestamp"]

(***************************************************************************)
(* C5: a run in which a write to the sink failed does not end with         *)
(* status 0.                                                               *)
(***************************************************************************)
C5_FailedWriteIsFatal ==
    (Exited /\ writer.err) => exit.code # 0

(***************************************************************************)
(* C6: rows with the same date and startTime stand in the sink in the      *)
(* order of their events in the calendar.                                  *)
(***************************************************************************)
C6_StableOrder ==
    (Exited /\ exit.code = 0 /\ Benign)
        => \A k \in 1..Len(SinkRows) :
             LET Tie(r) == SameKey(r, SinkRows[k])
             IN  SelectSeq(SinkRows, Tie) = SelectSeq(BuiltRows, Tie)

C8_SinkExclusive ==
    /\ argv.isStdout =>
         /\ outFile = outFile0 /\ outHandle = "none"
         /\ IsPrefix(stdout.rows, Lines(columns, writer.comma))
         /\ (Exited /\ exit.code = 0 /\ fault # "write") => stdout.rows = Lines(columns, writer.comma)
    /\ ~argv.isStdout =>
         /\ stdout = NoOutput
         /\ (Exited /\ exit.code = 0 /\ fault # "write") => outFile.data = Lines(columns, writer.comma)

(***************************************************************************)
(* C8 as amended: the same, except that without -s no row is written to    *)
(* standard output; the usage text of a failed argument parse is.          *)
(***************************************************************************)
C8_SinkExclusiveButUsage ==
    /\ argv.isStdout =>
         /\ outFile = outFile0 /\ outHandle = "none"
         /\ IsPrefix(stdout.rows, Lines(columns, writer.comma))
         /\ (Exited /\ exit.code = 0 /\ fault # "write") => stdout.rows = Lines(columns, writer.comma)
    /\ ~argv.isStdout =>
         /\ stdout.rows = <<>>
         /\ stdout.usage => (exit.cause = "usage" /\ ~argv.hasIcs)
         /\ (Exited /\ exit.code = 0 /\ fault # "write") => outFile.data = Lines(columns, writer.comma)

\* A run with -s has succeeded with rows on standard output.
C8_Witness ==
    /\ Exited /\ exit.code = 0 /\ argv.isStdout
    /\ Len(stdout.rows) >= 2
    /\ ~outFile.exists

(***************************************************************************)
(* C9: for a time span of a whole, non-negative number of minutes,         *)
(* formatDuration prints the whole hours of the span, a colon and the      *)
(* minutes left over, which are at most 59; hours*60 + minutes is the      *)
(* span; each number has at least two digits, padded with zeros.           *)
(***************************************************************************)
C9_HoursAndMinutes ==
    (hhmm # <<>> /\ span >= 0 /\ span % 60 = 0)
        => LET n == Len(hhmm)
               total == span \div 60
               hours == Atoi(hhmm, 1, n - 3)
               minutes == Atoi(hhmm, n - 1, n)
           IN  /\ n >= 5
               /\ hhmm[n - 2] = 58
               /\ AllDigits(hhmm, 1, n - 3) /\ AllDigits(hhmm, n - 1, n)
               /\ n > 5 => hhmm[1] # 48
               /\ hours = total \div 60
               /\ minutes = total % 60 /\ minutes <= 59
               /\ hours * 60 + minutes = total

\* A span of a hundred hours or more and a single-digit number of minutes
\* has been formatted.
C9_Witness ==
    /\ hhmm # <<>> /\ span >= 0 /\ span % 60 = 0
    /\ Len(hhmm) = 6
    /\ hhmm[5] = 48 /\ hhmm[6] # 48

(***************************************************************************)
(* C10: the output file is created, truncated or written, and the csv      *)
(* writer made, only after every kept event has become a row and the rows  *)
(* are sorted; a run that aborts on a timestamp has not touched the file   *)
(* or written a row; only a kept event's timestamp aborts a run, so a run  *)
(* whose kept events all have well-formed timestamps succeeds whatever     *)
(* the timestamps of the events the filter rejects.                        *)
(***************************************************************************)
Touched == outHandle # "none" \/ outFile # outFile0

TimestampAbort == exit.cause \in {"timestamp", "nilTimestamp"}

C10_OutputAfterRows ==
    /\ (Touched \/ writer.made) =>
         /\ pc \in {"newWriter", "write", "return", "exited"}
         /\ CreateColumns(events, argv.name).kind = "ok"
         /\ columns \in SortOutcomes(CreateColumns(events, argv.name).columns)
    /\ TimestampAbort =>
         /\ ~Touched /\ ~writer.made /\ stdout.rows = <<>>
         /\ \E i \in 1..Len(events) : ~StampsOk(events[i]) /\ Matches(events[i], argv.filter)
    /\ (Exited /\ argv.hasIcs /\ Benign
            /\ \A i \in 1..Len(calendar) :
                 /\ calendar[i].summary.present
                 /\ Matches(calendar[i], argv.filter) => StampsOk(calendar[i]))
        => exit.code = 0

\* A run has succeeded and written rows to the file although the filter
\* rejected an event whose timestamps are missing or malformed.
C10_Witness ==
    /\ Exited /\ exit.code = 0 /\ ~argv.isStdout
    /\ outFile.data # <<>>
    /\ \E i \in 1..Len(calendar) :
         ~Matches(calendar[i], argv.filter) /\ ~StampsOk(calendar[i])

====
